---- MODULE Spec2Model ----
(***************************************************************************)
(* Model of the Instagram unfollowers checker                               *)
(*   src/instagram_unfollowers_checker_educational_tool.js                  *)
(*   src/instagram_unfollows.js   (the same code without the banner)        *)
(*                                                                          *)
(* The script is one async function, findNotFollowingBack, that awaits four *)
(* waitForElement promises.  Each promise is driven by a setInterval timer  *)
(* of 100 ms.  JavaScript is single threaded: a timer callback and the      *)
(* continuation of the await it resolves (a microtask) run without any      *)
(* other task in between, so one timer tick is one action.  The page        *)
(* (buttons, dialog, rendered links) is the environment; its changes are    *)
(* separate actions that interleave with the ticks.                         *)
(*                                                                          *)
(* Strings the code manipulates (hrefs, usernames) are sequences of         *)
(* one-character strings, so that slice() is computed and not assumed.      *)
(***************************************************************************)
EXTENDS Integers, Sequences, FiniteSets, TLC

\* ---------------------------------------------------------------- bounds
\* Largest number of link elements the dialog holds in the model.
MaxLinks == 2
\* Largest timeout, in timer intervals, passed to waitForElement in the model
\* (the code's default, 10000 ms, is 100 intervals; the polling loop is the same).
MaxTimeoutTicks == 2

\* ------------------------------------------------------------- constants
\* const interval = 100;
interval == 100

\* The timeouts the model passes to waitForElement: 0, a positive multiple of
\* the interval, and a value that is no multiple of it.
Timeouts == { 0, interval * MaxTimeoutTicks - 50, interval * MaxTimeoutTicks }

\* ------------------------------------------------------------- selectors
SelFollowersButton == "a[href*=/followers/]"
SelFollowingButton == "a[href*=/following/]"
SelDialogLink == "div[role=dialog] div[role=button] a[role=link]"

Buttons == {"followers", "following"}

\* ---------------------------------------------------------- DOM elements
\* An element is a record; getAttribute('href') is null when hasHref is FALSE.
Link(h) == [kind |-> "link", hasHref |-> TRUE, href |-> h]
LinkNoHref == [kind |-> "link", hasHref |-> FALSE, href |-> <<>>]
ButtonEl(b) == [kind |-> b, hasHref |-> TRUE, href |-> <<"/", b, "/">>]
NullEl == [kind |-> "null", hasHref |-> FALSE, href |-> <<>>]

\* The hrefs of the links the dialog renders in a run.
RunHrefs == { <<"/", "a", "/">>, <<"/", "A", "/">> }
RunLinks == { Link(h) : h \in RunHrefs } \cup {LinkNoHref}

VARIABLES
  pc,                  \* position of findNotFollowingBack: "wait1".."wait4", "done"
  timeout,             \* the timeout argument of the waitForElement calls
  wait,                \* the running waitForElement call: elapsed, polls, ...
  settled,             \* the waitForElement call that settled last, as it settled
  buttons,             \* the profile buttons present in the DOM
  dialog,              \* the dialog the page shows: "none", "followers", "following"
  request,             \* the dialog a click asked for and the page has not opened yet
  domLinks,            \* the elements matching SelDialogLink, in document order
  freshSince,          \* polls of the running wait made when its selector began to match
  followersRendered,   \* the set of links the Followers dialog has rendered (history)
  followersUsernames,  \* const followersUsernames
  followingUsernames,  \* const followingUsernames
  followingSnapDialog, \* the dialog that was open when followingList was taken (history)
  steps,               \* the clicks, snapshots, comparison and logs done, in order (history)
  consoleLog,          \* arguments of console.log calls, in order
  consoleError,        \* arguments of console.error calls, in order
  promise              \* state of the promise returned by findNotFollowingBack

vars == << pc, timeout, wait, settled, buttons, dialog, request, domLinks, freshSince,
           followersRendered, followersUsernames, followingUsernames,
           followingSnapDialog, steps, consoleLog, consoleError, promise >>

\* ------------------------------------------------------ sequence helpers
ToSet(s) == { s[i] : i \in 1..Len(s) }

\* String.prototype.toLowerCase, on the letters the model uses
toLowerCase(s) == [i \in 1..Len(s) |-> IF s[i] = "A" THEN "a" ELSE s[i]]

\* Mutant of includes: the comparison folds letter case.
includes_IgnoreCase(list, x) ==
  \E i \in 1..Len(list) : toLowerCase(list[i]) = toLowerCase(x)

\* Mutant of includes: only the first entry of the list is looked at.
includes_FirstOnly(list, x) == list # <<>> /\ list[1] = x

\* Array.prototype.includes
includes(list, x) == \E i \in 1..Len(list) : list[i] = x

\* Array.prototype.filter with the predicate of line 68
RECURSIVE filterNotIncluded(_, _)
filterNotIncluded(list, others) ==
  IF list = <<>> THEN <<>>
  ELSE LET rest == filterNotIncluded(Tail(list), others)
       IN IF ~includes(others, Head(list)) THEN <<Head(list)>> \o rest ELSE rest

\* [...new Set(list)]: the first occurrence of each value, in insertion order
RECURSIVE spreadNewSet(_)
spreadNewSet(list) ==
  IF list = <<>> THEN <<>>
  ELSE LET init == spreadNewSet(SubSeq(list, 1, Len(list) - 1))
           last == list[Len(list)]
       IN IF includes(init, last) THEN init ELSE Append(init, last)

\* ------------------------------------------------------ extractUsernames
\* String.prototype.slice(1, -1)
slice1m1(s) == SubSeq(s, 2, Len(s) - 1)

\* the map callback: href ? href.slice(1, -1) : null
mapHref(item) ==
  IF item.hasHref /\ item.href # <<>>
  THEN [null |-> FALSE, s |-> slice1m1(item.href)]
  ELSE [null |-> TRUE, s |-> <<>>]

\* Mutant of truthy: only null is filtered out, '' is kept.
truthy_NullOnly(v) == ~v.null

\* the filter callback: (username) => username   (null and '' are falsy)
truthy(v) == ~v.null /\ v.s # <<>>

RECURSIVE extractUsernames(_)
extractUsernames(elements) ==
  IF elements = <<>> THEN <<>>
  ELSE LET v == mapHref(Head(elements))
           rest == extractUsernames(Tail(elements))
       IN IF truthy(v) THEN <<v.s>> \o rest ELSE rest

\* ------------------------------------------------------------ comparison
\* Mutant of notFollowingBack: the two lists change roles.
notFollowingBack_Swapped(followers, following) == filterNotIncluded(followers, following)

\* const notFollowingBack = followingUsernames.filter(...)
notFollowingBack(followers, following) == filterNotIncluded(following, followers)
\* Mutant of distinctNotFollowingBack: the filtered list is logged as it is.
distinctNotFollowingBack_NoSet(followers, following) ==
  notFollowingBack(followers, following)

\* const distinctNotFollowingBack = [...new Set(notFollowingBack)]
distinctNotFollowingBack(followers, following) ==
  spreadNewSet(notFollowingBack(followers, following))

ResultHeader == "Users who are not following back:"
TextEntry(t) == [isList |-> FALSE, text |-> t, list |-> <<>>]
ListEntry(l) == [isList |-> TRUE, text |-> "", list |-> l]
\* Mutant of logResult: the opposite difference is logged as well.
logResult_BothDifferences(followers, following) ==
  << TextEntry(ResultHeader),
     ListEntry(distinctNotFollowingBack(followers, following)),
     ListEntry(distinctNotFollowingBack(following, followers)) >>

\* console.log(header); console.log(distinctNotFollowingBack);
logResult(followers, following) ==
  << TextEntry(ResultHeader), ListEntry(distinctNotFollowingBack(followers, following)) >>

\* ------------------------------------------------------------------- DOM
\* document.querySelector(selector) on a DOM with buttons btns and dialog links
\* links: the first match, or null
querySelectorIn(selector, btns, links) ==
  IF selector = SelFollowersButton
  THEN (IF "followers" \in btns THEN ButtonEl("followers") ELSE NullEl)
  ELSE IF selector = SelFollowingButton
  THEN (IF "following" \in btns THEN ButtonEl("following") ELSE NullEl)
  ELSE (IF links # <<>> THEN links[1] ELSE NullEl)

querySelector(selector) == querySelectorIn(selector, buttons, domLinks)

\* document.querySelectorAll(SelDialogLink)
querySelectorAll == domLinks

\* Mutant of WaitSelector: the second and fourth calls wait for the button
\* that was clicked, not for a link of the dialog.
WaitSelector_ButtonAgain(n) ==
  CASE n = 1 -> SelFollowersButton
    [] n = 2 -> SelFollowersButton
    [] n = 3 -> SelFollowingButton
    [] n = 4 -> SelFollowingButton

\* the selector of the n-th waitForElement call of findNotFollowingBack
WaitSelector(n) ==
  CASE n = 1 -> SelFollowersButton
    [] n = 2 -> SelDialogLink
    [] n = 3 -> SelFollowingButton
    [] n = 4 -> SelDialogLink

WaitIds == 1..4
Running == IF pc = "wait1" THEN 1 ELSE IF pc = "wait2" THEN 2
           ELSE IF pc = "wait3" THEN 3 ELSE IF pc = "wait4" THEN 4 ELSE 0

NoWait == [n |-> 0, status |-> "idle", elapsed |-> 0, polls |-> 0, matches |-> 0,
           element |-> NullEl, appearedAfter |-> 0]
\* Mutant of StartedWait: the selector is queried at the call, and a match
\* resolves the promise at once.
StartedWait_SyncQuery(n) ==
  [NoWait EXCEPT !.n = n,
                 !.status = IF querySelector(WaitSelector(n)) # NullEl
                            THEN "resolved" ELSE "pending"]

\* new Promise + setInterval: let elapsed = 0, nothing polled yet
StartedWait(n) == [NoWait EXCEPT !.n = n, !.status = "pending"]

\* ------------------------------------------------------------------ Init
Init ==
  /\ pc = "wait1"
  /\ timeout \in Timeouts
  /\ buttons \in SUBSET Buttons
  /\ dialog = "none"
  /\ request = "none"
  /\ domLinks = <<>>
  /\ wait = StartedWait(1)
  /\ settled = NoWait
  /\ freshSince = 0
  /\ followersRendered = {}
  /\ followersUsernames = <<>>
  /\ followingUsernames = <<>>
  /\ followingSnapDialog = "none"
  /\ steps = <<>>
  /\ consoleLog = <<>>
  /\ consoleError = <<>>
  /\ promise = "pending"

\* ------------------------------------------------------- waitForElement
\* Mutant of checkOutcome: the deadline test is strict.
checkOutcome_StrictDeadline(found, elapsed, tmo) ==
  IF found THEN "resolved"
  ELSE IF elapsed > tmo THEN "rejected"
  ELSE "pending"

\* Mutant of checkOutcome: the deadline is tested before the match.
checkOutcome_DeadlineFirst(found, elapsed, tmo) ==
  IF elapsed >= tmo THEN "rejected"
  ELSE IF found THEN "resolved"
  ELSE "pending"

\* The decision of one timer callback (lines 26-32): a match resolves, else an
\* elapsed deadline rejects, else the timer keeps running.
checkOutcome(found, elapsed, tmo) ==
  IF found THEN "resolved"
  ELSE IF elapsed >= tmo THEN "rejected"
  ELSE "pending"

\* The state of the n-th waitForElement call after one run of its timer
\* callback `check` against the current DOM (lines 24-34).
check(n) ==
  LET w == wait
      element == querySelector(WaitSelector(n))
      found == element # NullEl
  IN [n |-> n,
      status |-> checkOutcome(found, w.elapsed, timeout),
      elapsed |-> w.elapsed + interval,
      polls |-> w.polls + 1,
      matches |-> w.matches + (IF found THEN 1 ELSE 0),
      element |-> element,
      appearedAfter |-> IF found THEN interval * freshSince ELSE 0]

\* the callback runs only while the interval timer is set (not yet cleared)
TimerSet(n) == n \in WaitIds /\ Running = n /\ wait.n = n /\ wait.status = "pending"

\* the next waitForElement call: a new promise and a new interval timer
StartNext(n, polled) ==
  /\ settled' = polled
  /\ wait' = StartedWait(n + 1)

\* Mutant of TickPending: the timer of the call that settled before was not
\* cleared and its callback still queries the DOM.
TickPending_OldTimerAlive ==
  /\ Running # 0 /\ TimerSet(Running)
  /\ check(Running).status = "pending"
  /\ wait' = check(Running)
  /\ settled' = IF settled.n = 0 THEN settled
                ELSE [settled EXCEPT !.polls = @ + 1, !.elapsed = @ + interval]
  /\ UNCHANGED << pc, timeout, buttons, dialog, request, domLinks, freshSince,
                  followersRendered, followersUsernames, followingUsernames,
                  followingSnapDialog, steps, consoleLog, consoleError, promise >>

\* A timer tick that neither resolves nor rejects: elapsed += interval.
TickPending ==
  /\ Running # 0 /\ TimerSet(Running)
  /\ check(Running).status = "pending"
  /\ wait' = check(Running)
  /\ UNCHANGED << pc, timeout, settled, buttons, dialog, request, domLinks, freshSince,
                  followersRendered, followersUsernames, followingUsernames,
                  followingSnapDialog, steps, consoleLog, consoleError, promise >>

\* Mutant of TickResolve1: the followers list is not awaited; after the click
\* the function goes on to the following button.
TickResolve1_SkipsFollowersList ==
  /\ pc = "wait1" /\ TimerSet(1)
  /\ check(1).status = "resolved"
  /\ settled' = check(1)
  /\ wait' = StartedWait(3)
  /\ request' = "followers"
  /\ steps' = Append(steps, "clickFollowers")
  /\ pc' = "wait3"
  /\ freshSince' = 0
  /\ UNCHANGED << timeout, buttons, dialog, domLinks, followersRendered,
                  followersUsernames, followingUsernames, followingSnapDialog,
                  consoleLog, consoleError, promise >>

\* Lines 50-51: the followers button is found; click it, then wait for a link.
TickResolve1 ==
  /\ pc = "wait1" /\ TimerSet(1)
  /\ check(1).status = "resolved"
  /\ StartNext(1, check(1))
  /\ request' = "followers"
  /\ steps' = Append(steps, "clickFollowers")
  /\ pc' = "wait2"
  /\ freshSince' = 0
  /\ UNCHANGED << timeout, buttons, dialog, domLinks, followersRendered,
                  followersUsernames, followingUsernames, followingSnapDialog,
                  consoleLog, consoleError, promise >>

\* Lines 54-56 and 59: a dialog link is found; snapshot and extract the
\* followers, then wait for the following button.
TickResolve2 ==
  /\ pc = "wait2" /\ TimerSet(2)
  /\ check(2).status = "resolved"
  /\ StartNext(2, check(2))
  /\ followersUsernames' = extractUsernames(querySelectorAll)
  /\ steps' = Append(steps, "snapFollowers")
  /\ pc' = "wait3"
  /\ freshSince' = 0
  /\ UNCHANGED << timeout, buttons, dialog, request, domLinks, followersRendered,
                  followingUsernames, followingSnapDialog,
                  consoleLog, consoleError, promise >>

\* Lines 59-60 and 63: the following button is found; click it, then wait for
\* a link.
TickResolve3 ==
  /\ pc = "wait3" /\ TimerSet(3)
  /\ check(3).status = "resolved"
  /\ StartNext(3, check(3))
  /\ request' = "following"
  /\ steps' = Append(steps, "clickFollowing")
  /\ pc' = "wait4"
  /\ freshSince' = 0
  /\ UNCHANGED << timeout, buttons, dialog, domLinks, followersRendered,
                  followersUsernames, followingUsernames, followingSnapDialog,
                  consoleLog, consoleError, promise >>

\* Lines 63-73: a dialog link is found; snapshot and extract the following,
\* compare, log the result; the async function returns.
TickResolve4 ==
  /\ pc = "wait4" /\ TimerSet(4)
  /\ check(4).status = "resolved"
  /\ settled' = check(4)
  /\ wait' = NoWait
  /\ followingUsernames' = extractUsernames(querySelectorAll)
  /\ followingSnapDialog' = dialog
  /\ consoleLog' = consoleLog \o
                   logResult(followersUsernames, extractUsernames(querySelectorAll))
  /\ steps' = steps \o << "snapFollowing", "compare", "logResult" >>
  /\ pc' = "done"
  /\ promise' = "fulfilled"
  /\ UNCHANGED << timeout, buttons, dialog, request, domLinks, freshSince,
                  followersRendered, followersUsernames, consoleError >>

\* Mutant of TickReject: no catch block, the rejection leaves the function.
TickReject_Uncaught ==
  /\ Running # 0 /\ TimerSet(Running)
  /\ check(Running).status = "rejected"
  /\ settled' = check(Running)
  /\ wait' = NoWait
  /\ pc' = "done"
  /\ promise' = "rejected"
  /\ UNCHANGED << timeout, buttons, dialog, request, domLinks, freshSince,
                  followersRendered, followersUsernames, followingUsernames,
                  followingSnapDialog, steps, consoleLog, consoleError >>

\* Lines 29-31 and 74-76: the deadline has elapsed without a match; the promise
\* rejects, the await throws, the catch block logs the reason and the async
\* function returns normally.
TickReject ==
  /\ Running # 0 /\ TimerSet(Running)
  /\ check(Running).status = "rejected"
  /\ settled' = check(Running)
  /\ wait' = NoWait
  /\ consoleError' = Append(consoleError,
                            [label |-> "Error:",
                             selector |-> WaitSelector(Running),
                             timeout |-> timeout])
  /\ steps' = Append(steps, "logError")
  /\ pc' = "done"
  /\ promise' = "fulfilled"
  /\ UNCHANGED << timeout, buttons, dialog, request, domLinks, freshSince,
                  followersRendered, followersUsernames, followingUsernames,
                  followingSnapDialog, consoleLog >>

\* ----------------------------------------------------------- environment
\* The page is not part of the repository: its DOM changes are free, within
\* what a profile page with a followers/following dialog does.  The page is
\* observed for as long as the script runs.
PageObserved == pc # "done"

\* the polls made by the running wait when its selector begins to match
FreshAfter(btns, links) ==
  IF Running = 0 THEN 0
  ELSE LET sel == WaitSelector(Running)
       IN IF querySelectorIn(sel, btns, links) = NullEl THEN 0
          ELSE IF querySelector(sel) = NullEl THEN wait.polls
          ELSE freshSince

EnvUnchanged ==
  UNCHANGED << pc, timeout, wait, settled, followersUsernames, followingUsernames,
               followingSnapDialog, steps, consoleLog, consoleError, promise >>

\* a profile button is added to the DOM
ShowButton(b) ==
  /\ PageObserved
  /\ b \notin buttons
  /\ buttons' = buttons \cup {b}
  /\ freshSince' = FreshAfter(buttons \cup {b}, domLinks)
  /\ UNCHANGED << dialog, request, domLinks, followersRendered >>
  /\ EnvUnchanged

\* a profile button is removed from the DOM
HideButton(b) ==
  /\ PageObserved
  /\ b \in buttons
  /\ buttons' = buttons \ {b}
  /\ freshSince' = FreshAfter(buttons \ {b}, domLinks)
  /\ UNCHANGED << dialog, request, domLinks, followersRendered >>
  /\ EnvUnchanged

\* the page opens the dialog a click asked for, replacing the previous content
OpenDialog ==
  /\ PageObserved
  /\ request # "none"
  /\ dialog' = request
  /\ request' = "none"
  /\ domLinks' = <<>>
  /\ freshSince' = FreshAfter(buttons, <<>>)
  /\ UNCHANGED << buttons, followersRendered >>
  /\ EnvUnchanged

\* the open dialog renders one more entry
RenderEntry(e) ==
  /\ PageObserved
  /\ dialog # "none"
  /\ Len(domLinks) < MaxLinks
  /\ domLinks' = Append(domLinks, e)
  /\ followersRendered' = IF dialog = "followers" THEN followersRendered \cup {e}
                          ELSE followersRendered
  /\ freshSince' = FreshAfter(buttons, Append(domLinks, e))
  /\ UNCHANGED << buttons, dialog, request >>
  /\ EnvUnchanged

Next ==
  \/ TickPending
  \/ TickResolve1
  \/ TickResolve2
  \/ TickResolve3
  \/ TickResolve4
  \/ TickReject
  \/ \E b \in Buttons : ShowButton(b)
  \/ \E b \in Buttons : HideButton(b)
  \/ OpenDialog
  \/ \E e \in RunLinks : RenderEntry(e)

Spec == Init /\ [][Next]_vars

\* A timer callback of the script, whatever its outcome.
Tick ==
  \/ TickPending
  \/ TickResolve1
  \/ TickResolve2
  \/ TickResolve3
  \/ TickResolve4
  \/ TickReject

\* Whether a run terminates, and after how many polls, depends on whether the
\* selectors match, not on which hrefs the links carry: under fairness the
\* dialog renders one kind of link.
FairLinks == { Link(<<"/", "a", "/">>) }

NextFair ==
  \/ Tick
  \/ \E b \in Buttons : ShowButton(b)
  \/ \E b \in Buttons : HideButton(b)
  \/ OpenDialog
  \/ \E e \in FairLinks : RenderEntry(e)

\* setInterval keeps calling the callback while the timer is set: a tick that
\* stays possible is eventually taken.
SpecFair == Init /\ [][NextFair]_vars /\ WF_vars(Tick)

\* ------------------------------------------------- the comparison alone
\* Lines 67-73 applied to every pair of username lists within the bounds.
CompareNames == { <<"a">>, <<"A">>, <<"b">> }
RECURSIVE ListsUpTo(_, _)
ListsUpTo(S, n) ==
  IF n = 0 THEN { <<>> }
  ELSE LET shorter == ListsUpTo(S, n - 1)
       IN shorter \cup { Append(l, x) : l \in shorter, x \in S }
UsernameLists == ListsUpTo(CompareNames, MaxLinks)

InitCompare ==
  /\ pc = "compare"
  /\ timeout = 0
  /\ wait = NoWait
  /\ settled = NoWait
  /\ buttons = {}
  /\ dialog = "none"
  /\ request = "none"
  /\ domLinks = <<>>
  /\ freshSince = 0
  /\ followersRendered = {}
  /\ followersUsernames \in UsernameLists
  /\ followingUsernames \in UsernameLists
  /\ followingSnapDialog = "none"
  /\ steps = <<>>
  /\ consoleLog = <<>>
  /\ consoleError = <<>>
  /\ promise = "pending"

\* Lines 67-73: filter, de-duplicate, log.
CompareStep ==
  /\ pc = "compare"
  /\ consoleLog' = consoleLog \o logResult(followersUsernames, followingUsernames)
  /\ steps' = steps \o << "compare", "logResult" >>
  /\ pc' = "done"
  /\ promise' = "fulfilled"
  /\ UNCHANGED << timeout, wait, settled, buttons, dialog, request, domLinks,
                  freshSince, followersRendered, followersUsernames,
                  followingUsernames, followingSnapDialog, consoleError >>

NextCompare == CompareStep

SpecCompare == InitCompare /\ [][NextCompare]_vars

\* ------------------------------------------------ extractUsernames alone
\* Lines 39-44 applied to every list of link elements within the bounds, with
\* hrefs of every shape: '/name/', '/', '//', no leading slash, no trailing
\* slash, the empty string, and no href attribute.
ExtractHrefs == { <<"/", "a", "/">>, <<"/", "b", "/">>, <<"/">>, <<"/", "/">>,
                  <<"a", "b", "/">>, <<"/", "a", "b">>, <<>> }
ExtractLinks == { Link(h) : h \in ExtractHrefs } \cup {LinkNoHref}

InitExtract ==
  /\ pc = "extract"
  /\ timeout = 0
  /\ wait = NoWait
  /\ settled = NoWait
  /\ buttons = {}
  /\ dialog = "followers"
  /\ request = "none"
  /\ domLinks \in ListsUpTo(ExtractLinks, MaxLinks)
  /\ freshSince = 0
  /\ followersRendered = {}
  /\ followersUsernames = <<>>
  /\ followingUsernames = <<>>
  /\ followingSnapDialog = "none"
  /\ steps = <<>>
  /\ consoleLog = <<>>
  /\ consoleError = <<>>
  /\ promise = "pending"

\* Lines 55-56: followersUsernames = extractUsernames(followersList).
ExtractStep ==
  /\ pc = "extract"
  /\ followersUsernames' = extractUsernames(querySelectorAll)
  /\ steps' = Append(steps, "extract")
  /\ pc' = "done"
  /\ UNCHANGED << timeout, wait, settled, buttons, dialog, request, domLinks,
                  freshSince, followersRendered, followingUsernames,
                  followingSnapDialog, consoleLog, consoleError, promise >>

NextExtract == ExtractStep

SpecExtract == InitExtract /\ [][NextExtract]_vars

\* ================================================================ claims
\* the header "Users who are not following back:" has been logged
ResultLogged == \E i \in 1..Len(consoleLog) : consoleLog[i] = TextEntry(ResultHeader)
\* the list logged after the header
LoggedList == consoleLog[2].list
Followers == ToSet(followersUsernames)
Following == ToSet(followingUsernames)

\* C1: the logged result, as a set, is exactly the usernames of
\* followingUsernames that do not occur in followersUsernames.
C1_ResultIsFollowingMinusFollowers ==
  ResultLogged => ToSet(LoggedList) = Following \ Followers

\* C1 witness: a run logged a non-empty result and dropped a followed
\* username because it occurs in followersUsernames.
C1_Witness ==
  /\ pc = "done" /\ ResultLogged /\ settled.n = 4
  /\ LoggedList # <<>>
  /\ Following \cap Followers # {}

\* C2: the logged result never holds the same username twice.
C2_ResultHasNoDuplicates ==
  ResultLogged =>
    \A i, j \in 1..Len(LoggedList) : i # j => LoggedList[i] # LoggedList[j]

\* C2 witness: the following list repeats a username that is reported.
C2_Witness ==
  /\ ResultLogged /\ settled.n = 4
  /\ \E i, j \in 1..Len(followingUsernames) :
       /\ i < j
       /\ followingUsernames[i] = followingUsernames[j]
       /\ followingUsernames[i] \in ToSet(LoggedList)

\* the element a selector can match
IsMatchFor(selector, el) ==
  IF selector = SelFollowersButton THEN el = ButtonEl("followers")
  ELSE IF selector = SelFollowingButton THEN el = ButtonEl("following")
  ELSE el \in RunLinks

\* C3: waitForElement polls once per 100 ms tick; it resolves with the
\* matching element at the first poll that matches (so exactly one poll, the
\* last, matched), it rejects only if no poll matched, and while it is
\* pending no poll has matched.
C3_ResolvesAtFirstMatchRejectsOnlyWithoutMatch ==
  /\ wait.elapsed = interval * wait.polls
  /\ settled.elapsed = interval * settled.polls
  /\ wait.matches = 0
  /\ settled.status = "resolved" =>
       /\ settled.matches = 1
       /\ IsMatchFor(WaitSelector(settled.n), settled.element)
  /\ settled.status = "rejected" =>
       /\ settled.matches = 0
       /\ settled.element = NullEl
       /\ settled.elapsed - interval >= timeout

\* C3 witness: a wait resolved at a later poll than its first, after polls
\* that found nothing.
C3_Witness ==
  /\ settled.status = "resolved"
  /\ settled.polls >= 2
  /\ settled.n = 2

\* C4: for a timeout that is a positive multiple of 100, waitForElement makes
\* no poll later than timeout ms after the call (the k-th poll is made at
\* 100*k ms), so it rejects no later than that and never resolves with an
\* element that appeared after timeout ms.
C4_NoPollAfterTimeout ==
  (timeout > 0 /\ timeout % interval = 0) =>
    /\ interval * wait.polls <= timeout
    /\ interval * settled.polls <= timeout
    /\ settled.status = "resolved" => settled.appearedAfter < timeout

\* C5: when the result is logged, the followers snapshot holds every entry the
\* Followers dialog rendered, and no rendered follower is reported.
C5_FollowersSnapshotComplete ==
  ResultLogged =>
    \A e \in followersRendered :
      /\ ToSet(extractUsernames(<<e>>)) \subseteq Followers
      /\ ToSet(extractUsernames(<<e>>)) \cap ToSet(LoggedList) = {}

\* C6: the following snapshot is taken from the Following dialog, never from
\* the links the Followers dialog left in the DOM.
C6_FollowingSnapshotFromFollowingDialog ==
  (\E i \in 1..Len(steps) : steps[i] = "snapFollowing") =>
    followingSnapDialog = "following"

\* C7: the logged set depends only on the sets of the two lists: any lists
\* with the same two sets (permuted, entries repeated) give the same logged
\* set, and so does a recomputation from the same lists.
C7_LoggedSetDependsOnSetsOnly ==
  ResultLogged =>
    \A f2 \in UsernameLists, g2 \in UsernameLists :
      (ToSet(f2) = Followers /\ ToSet(g2) = Following) =>
        ToSet(distinctNotFollowingBack(f2, g2)) = ToSet(LoggedList)

\* C7 witness: a result was logged from a followers list of two different
\* names, of which only the second is followed.
C7_Witness ==
  /\ ResultLogged
  /\ Len(followersUsernames) >= 2
  /\ followersUsernames[1] # followersUsernames[2]
  /\ followersUsernames[2] \in Following
  /\ followersUsernames[1] \notin Following
  /\ LoggedList # <<>>

\* C8: the comparison matches usernames exactly: a followed username is left
\* out of the result only if the identical string is in followersUsernames, a
\* username that differs from a follower's in letter case only is still
\* reported, and the reported strings are the extracted ones, unchanged.
C8_ExactCaseSensitiveMatch ==
  ResultLogged =>
    /\ \A i \in 1..Len(followingUsernames) :
         followingUsernames[i] \notin ToSet(LoggedList) =>
           \E j \in 1..Len(followersUsernames) :
             followersUsernames[j] = followingUsernames[i]
    /\ \A i \in 1..Len(followingUsernames), j \in 1..Len(followersUsernames) :
         ( /\ followingUsernames[i] # followersUsernames[j]
           /\ toLowerCase(followingUsernames[i]) = toLowerCase(followersUsernames[j])
           /\ followingUsernames[i] \notin Followers )
         => followingUsernames[i] \in ToSet(LoggedList)
    /\ ToSet(LoggedList) \subseteq Following

\* C8 witness: "a" follows, "A" is followed and does not follow: "A" is
\* reported.
C8_Witness ==
  /\ ResultLogged /\ settled.n = 4
  /\ <<"a">> \in Followers
  /\ <<"A">> \notin Followers
  /\ <<"A">> \in ToSet(LoggedList)

\* C9 (as claimed): every completed run reports both differences, following
\* minus followers and followers minus following.
C9_ReportsBothDifferences ==
  ResultLogged =>
    \E i, j \in 1..Len(consoleLog) :
      /\ i # j
      /\ consoleLog[i].isList /\ ToSet(consoleLog[i].list) = Following \ Followers
      /\ consoleLog[j].isList /\ ToSet(consoleLog[j].list) = Followers \ Following

\* C9 (amended): a completed run logs the header and one list only, the
\* following-minus-followers difference; followers minus following is not
\* reported.
C9_ReportsOnlyFollowingMinusFollowers ==
  ResultLogged =>
    /\ Len(consoleLog) = 2
    /\ consoleLog[1] = TextEntry(ResultHeader)
    /\ consoleLog[2].isList
    /\ ToSet(consoleLog[2].list) = Following \ Followers

\* C9 witness: a run completed with a follower that is not followed back, and
\* that follower is not in what was logged.
C9_Witness ==
  /\ ResultLogged /\ settled.n = 4
  /\ Followers \ Following # {}
  /\ \A i \in 1..Len(consoleLog) :
       ToSet(consoleLog[i].list) \cap (Followers \ Following) = {}

\* the steps findNotFollowingBack has done when its n-th wait is running
StepsBefore(n) ==
  SubSeq(<< "clickFollowers", "snapFollowers", "clickFollowing" >>, 1, n - 1)

\* C10: when a waitForElement call rejects the run is over: nothing was done
\* after the steps that precede that wait, no timer is left, the result is
\* not logged, the reason is logged once through console.error, and the
\* promise of findNotFollowingBack is fulfilled.
C10_RejectionAbortsRun ==
  settled.status = "rejected" =>
    /\ pc = "done"
    /\ wait = NoWait
    /\ steps = Append(StepsBefore(settled.n), "logError")
    /\ ~ResultLogged
    /\ consoleLog = <<>>
    /\ Len(consoleError) = 1
    /\ consoleError[1].selector = WaitSelector(settled.n)
    /\ consoleError[1].timeout = timeout
    /\ promise = "fulfilled"
    /\ settled.n \in {1, 2} => followersUsernames = <<>>
    /\ followingUsernames = <<>>

\* C10 witness: the fourth wait rejected, after both clicks and the followers
\* snapshot.
C10_Witness ==
  /\ settled.status = "rejected"
  /\ settled.n = 4
  /\ followersUsernames # <<>>

\* the order of the steps of a run that logs a result
FullOrder == << "clickFollowers", "snapFollowers", "clickFollowing",
                "snapFollowing", "compare", "logResult" >>
IsPrefix(s, t) == Len(s) <= Len(t) /\ SubSeq(t, 1, Len(s)) = s
\* the steps done, without a final error log
StepsDone ==
  IF steps # <<>> /\ steps[Len(steps)] = "logError"
  THEN SubSeq(steps, 1, Len(steps) - 1) ELSE steps

\* C11: the steps of a run occur in the order click followers, followers
\* snapshot, click following, following snapshot, comparison, result log, each
\* at most once: what has been done is always a prefix of that order (so the
\* following button is not clicked before the followers snapshot, and the
\* result is not logged before both snapshots).
C11_StepsInOrder ==
  /\ IsPrefix(StepsDone, FullOrder)
  /\ \A i \in 1..(Len(steps) - 1) : steps[i] # "logError"
  /\ Running \in WaitIds => StepsDone = StepsBefore(Running)

\* C11 witness: a run did all six steps.
C11_Witness == steps = FullOrder /\ pc = "done"

\* C12: a waitForElement call settles at most once and is not polled after it
\* settled: the record of the settled call (status, polls, element) changes
\* only when a later call settles, whatever the page does meanwhile, and the
\* call being polled is always a later one than the settled one.
C12_SettledOnceAndTimerCleared ==
  [][ /\ (settled.n # 0 /\ settled'.n = settled.n) => settled' = settled
      /\ settled'.n >= settled.n
      /\ settled'.status \in {"idle", "resolved", "rejected"}
      /\ wait'.n # 0 => (wait'.status = "pending" /\ wait'.n = settled'.n + 1)
    ]_vars

\* C12 witness: the first call resolved with the followers button, the button
\* has since left the DOM, and the second call is being polled.
C12_Witness ==
  /\ settled.n = 1 /\ settled.status = "resolved"
  /\ "followers" \notin buttons
  /\ wait.n = 2 /\ wait.polls >= 1

CeilDiv(a, b) == (a + b - 1) \div b
\* the largest number of polls of one call
MaxPolls == CeilDiv(timeout, interval) + 1

\* C13: with timer ticks that keep coming, whatever the page does, no call
\* makes more than ceil(timeout/100)+1 polls, every run finishes, and a
\* finished run has logged either the result or one error, never both and
\* never neither.
C13_SettlesAndFinishesWithOneOutcome ==
  /\ [](wait.polls < MaxPolls /\ settled.polls <= MaxPolls)
  /\ <>(pc = "done")
  /\ [](pc = "done" =>
          \/ (ResultLogged /\ consoleError = <<>>)
          \/ (~ResultLogged /\ consoleLog = <<>> /\ Len(consoleError) = 1))
  /\ [](pc # "done" => (consoleLog = <<>> /\ consoleError = <<>>))

\* C13 witness: with a timeout that is no multiple of the interval, a call
\* rejected at its last allowed poll and the run finished with the error.
C13_Witness ==
  /\ pc = "done"
  /\ timeout % interval # 0
  /\ settled.status = "rejected"
  /\ settled.polls = MaxPolls
  /\ Len(consoleError) = 1

\* C14: a match takes precedence over the deadline: a call whose last poll
\* found the element at a poll where elapsed >= timeout held resolved.
C14_MatchBeatsDeadline ==
  (settled.n # 0 /\ settled.element # NullEl /\ settled.elapsed - interval >= timeout)
    => settled.status = "resolved"

\* C14 witness: with a positive timeout, a call resolved at the poll at which
\* the deadline had elapsed.
C14_Witness ==
  /\ timeout > 0
  /\ settled.status = "resolved"
  /\ settled.elapsed - interval >= timeout

\* C15: waitForElement does not query the DOM at the call and polls at least
\* once: a call that has not polled is pending even if its element is in the
\* DOM, a settled call made at least one poll, one interval after the call at
\* the earliest, and with timeout 0 a rejected call made exactly one poll.
C15_NoSyncQueryAtLeastOnePoll ==
  /\ (wait.n # 0 /\ wait.polls = 0) => wait.status = "pending"
  /\ settled.n # 0 => (settled.polls >= 1 /\ settled.elapsed >= interval)
  /\ (timeout = 0 /\ settled.status = "rejected") => settled.polls = 1

\* C15 witness: the following button was in the DOM when the third call was
\* made; the call resolved at its first poll and not before.
C15_Witness ==
  /\ settled.n = 3 /\ settled.status = "resolved"
  /\ settled.polls = 1 /\ settled.appearedAfter = 0
  /\ timeout = 0

\* extractUsernames has been applied to domLinks
Extracted == pc = "done" /\ steps = << "extract" >>

\* an href without its leading slash and without its trailing slash, every
\* other character kept
stripSlashes(h) ==
  LET noLead == IF h # <<>> /\ Head(h) = "/" THEN Tail(h) ELSE h
  IN IF noLead # <<>> /\ noLead[Len(noLead)] = "/"
     THEN SubSeq(noLead, 1, Len(noLead) - 1) ELSE noLead

RECURSIVE strippedNames(_)
strippedNames(elements) ==
  IF elements = <<>> THEN <<>>
  ELSE LET e == Head(elements)
           rest == strippedNames(Tail(elements))
       IN IF e.hasHref /\ stripSlashes(e.href) # <<>>
          THEN <<stripSlashes(e.href)>> \o rest ELSE rest

\* C16 (as claimed): for every link with an href extractUsernames yields the
\* href without its leading and trailing slash and with no other character
\* removed, also when the href lacks one of the two slashes.
C16_OnlySlashesRemoved ==
  Extracted => followersUsernames = strippedNames(domLinks)

\* the positions of the input elements that have an href of which
\* slice(1, -1) leaves something
KeptPositions == { i \in 1..Len(domLinks) :
                     domLinks[i].hasHref /\ Len(domLinks[i].href) > 2 }

TakesSnapshot ==
  \E name \in { "snapFollowers", "snapFollowing" } :
    name \in ToSet(steps') \ ToSet(steps)

\* C18: a snapshot is taken in the step of the poll that found a link, from
\* the DOM that poll saw, so it is never empty; and a run in which the
\* Followers dialog rendered no link ends with one timeout error of the first
\* or second wait and no result.
C18_SnapshotsNonEmpty ==
  /\ [][ TakesSnapshot =>
           /\ querySelectorAll # <<>>
           /\ domLinks' = domLinks
           /\ settled'.element = domLinks[1] ]_vars
  /\ []( (pc = "done" /\ followersRendered = {}) =>
           /\ ~ResultLogged
           /\ consoleLog = <<>>
           /\ settled.status = "rejected"
           /\ settled.n \in {1, 2}
           /\ Len(consoleError) = 1
           /\ followingUsernames = <<>> )

\* C18 witness: the Followers dialog opened, rendered no link, and the second
\* wait timed out.
C18_Witness ==
  /\ pc = "done"
  /\ dialog = "followers"
  /\ followersRendered = {}
  /\ settled.n = 2 /\ settled.status = "rejected"

====
